---- MODULE Spec2Model ----
(***************************************************************************)
(* Email AI categorizer: the content normalizer (GmailParser), the two     *)
(* categorization services (the lazily initialised Gemini service of the   *)
(* serverless deployment, the OpenAI/Gemini service with statistics of the *)
(* backend deployment) and the POST /categorize handlers in front of them. *)
(*                                                                         *)
(* A Python str is a sequence of characters, each character a one-letter   *)
(* TLA+ string; Python's None is the one-element sequence <<"None">>, and  *)
(* a key a dict does not hold is <<"Absent">>.                             *)
(***************************************************************************)
EXTENDS Integers, Sequences, FiniteSets, TLC

None == <<"None">>
Absent == <<"Absent">>

\* Python truthiness of an optional str: None and '' are falsy.
Truthy(v) == v # None /\ v # <<>>

UpperChars == <<"A","B","C","D","E","F","G","H","I","J","K","L","M",
                "N","O","P","Q","R","S","T","U","V","W","X","Y","Z">>
LowerChars == <<"a","b","c","d","e","f","g","h","i","j","k","l","m",
                "n","o","p","q","r","s","t","u","v","w","x","y","z">>
Digits == {"0","1","2","3","4","5","6","7","8","9"}

UpperSet == {UpperChars[i] : i \in 1..26}
LowerSet == {LowerChars[i] : i \in 1..26}
ToLower == [c \in UpperSet |-> LowerChars[CHOOSE i \in 1..26 : UpperChars[i] = c]]

IsUpper(c) == c \in UpperSet
IsLower(c) == c \in LowerSet
\* str.lower() on one character ("A^" / "a^" stand for the one accented
\* capital the source's patterns hold, and its lower-case form).
Lower(c) == IF c \in UpperSet THEN ToLower[c]
            ELSE IF c = "A^" THEN "a^"
            ELSE c
LowerStr(s) == [i \in 1..Len(s) |-> Lower(s[i])]

\* \s of the re module, and the characters str.split() and str.strip() drop.
IsSpace(c) == c \in {" ", "\t", "\n", "\r", "\f"}
IsDigit(c) == c \in Digits
\* \w of the re module.
IsWordChar(c) == IsUpper(c) \/ IsLower(c) \/ IsDigit(c) \/ c = "_"

Drop(s, n) == IF n >= Len(s) THEN <<>> ELSE SubSeq(s, n + 1, Len(s))
Take(s, n) == IF n >= Len(s) THEN s ELSE SubSeq(s, 1, n)

\* p occurs in s at position i (case-sensitive / re.IGNORECASE).
MatchAt(s, p, i) == /\ i >= 1
                    /\ i + Len(p) - 1 <= Len(s)
                    /\ \A j \in 1..Len(p) : s[i + j - 1] = p[j]
MatchAtCI(s, p, i) == /\ i >= 1
                      /\ i + Len(p) - 1 <= Len(s)
                      /\ \A j \in 1..Len(p) : Lower(s[i + j - 1]) = Lower(p[j])
Contains(s, p) == \E i \in 1..(Len(s) + 1) : MatchAt(s, p, i)
ContainsCI(s, p) == \E i \in 1..(Len(s) + 1) : MatchAtCI(s, p, i)

\* str.strip(): leading and trailing whitespace removed.
LStrip(s) == IF \A i \in 1..Len(s) : IsSpace(s[i]) THEN <<>>
             ELSE Drop(s, (CHOOSE i \in 1..Len(s) :
                              ~IsSpace(s[i]) /\ \A j \in 1..(i - 1) : IsSpace(s[j])) - 1)
RStrip(s) == IF \A i \in 1..Len(s) : IsSpace(s[i]) THEN <<>>
             ELSE Take(s, CHOOSE i \in 1..Len(s) :
                              ~IsSpace(s[i]) /\ \A j \in (i + 1)..Len(s) : IsSpace(s[j]))
Strip(s) == RStrip(LStrip(s))

\* A variant of the whitespace step: subject.replace('  ', ' '), which halves a
\* run of blanks instead of collapsing it.
ReplaceDoubleSpaces(s) ==
    LET g[i \in 1..(Len(s) + 1)] ==
            IF i > Len(s) THEN <<>>
            ELSE IF MatchAt(s, <<" ", " ">>, i) THEN <<" ">> \o g[i + 2]
            ELSE <<s[i]>> \o g[i + 1]
    IN g[1]

\* ' '.join(s.split()): whitespace runs become one space, the ends are trimmed.
SplitJoin(s) ==
    LET keep(i) == \/ ~IsSpace(s[i])
                   \/ /\ i > 1
                      /\ ~IsSpace(s[i - 1])
                      /\ \E j \in (i + 1)..Len(s) : ~IsSpace(s[j])
        f[i \in 0..Len(s)] ==
            IF i = 0 THEN <<>>
            ELSE IF keep(i) THEN Append(f[i - 1], IF IsSpace(s[i]) THEN " " ELSE s[i])
            ELSE f[i - 1]
    IN f[Len(s)]

(***************************************************************************)
(* html.unescape.  The strings of this model are built from the chunks     *)
(* listed further down; over them the only character reference that can    *)
(* occur is "&amp;" (no other "&name" is an HTML5 entity, with or without  *)
(* its semicolon), so unescape is: every "&amp;" becomes "&", scanning     *)
(* left to right, once.  "&amp;amp;" therefore decodes to "&amp;".         *)
(***************************************************************************)
AmpRef == <<"&", "a", "m", "p", ";">>

Unescape(s) ==
    LET g[i \in 1..(Len(s) + 1)] ==
            IF i > Len(s) THEN <<>>
            ELSE IF MatchAt(s, AmpRef, i)
                 THEN <<"&">> \o g[i + Len(AmpRef)]
                 ELSE <<s[i]>> \o g[i + 1]
    IN g[1]

(***************************************************************************)
(* GmailParser._clean_subject                                              *)
(***************************************************************************)
RePrefix  == <<"r", "e", ":">>
FwdPrefix == <<"f", "w", "d", ":">>
FwPrefix  == <<"f", "w", ":">>

\* Length of the match of ^(Re|Fwd|FW|RE|FWD): at the start of s, 0 if none.
PrefixLen(s) == IF MatchAtCI(s, RePrefix, 1) THEN Len(RePrefix)
                ELSE IF MatchAtCI(s, FwdPrefix, 1) THEN Len(FwdPrefix)
                ELSE IF MatchAtCI(s, FwPrefix, 1) THEN Len(FwPrefix)
                ELSE 0

HasPrefix(s) == PrefixLen(s) > 0

\* re.sub(r'^(Re|Fwd|FW|RE|FWD):\s*', '', subject, flags=re.IGNORECASE):
\* the pattern is anchored, so at most one prefix goes, with the whitespace
\* that follows it.
StripPrefixOnce(s) == IF HasPrefix(s) THEN LStrip(Drop(s, PrefixLen(s))) ELSE s

_clean_subject(subject) ==
    IF ~Truthy(subject) THEN <<>>
    ELSE Strip(Unescape(SplitJoin(StripPrefixOnce(subject))))

(***************************************************************************)
(* GmailParser._clean_sender                                               *)
(***************************************************************************)
\* re.search(r'<([^>]+)>', sender): the leftmost "<" that is followed by at
\* least one character other than ">" and then by a ">".
AngleStart(s) ==
    LET ok(i) == /\ s[i] = "<"
                 /\ i + 1 <= Len(s)
                 /\ s[i + 1] # ">"
                 /\ \E j \in (i + 2)..Len(s) : s[j] = ">"
    IN IF \E i \in 1..Len(s) : ok(i)
       THEN CHOOSE i \in 1..Len(s) : ok(i) /\ \A k \in 1..(i - 1) : ~ok(k)
       ELSE 0

AngleGroup(s) ==
    LET i == AngleStart(s)
        j == CHOOSE k \in (i + 2)..Len(s) :
                 s[k] = ">" /\ \A m \in (i + 1)..(k - 1) : s[m] # ">"
    IN SubSeq(s, i + 1, j - 1)

\* re.sub(r'[<>]', '', sender)
RemoveAngles(s) == SelectSeq(s, LAMBDA c : c \notin {"<", ">"})

_clean_sender(sender) ==
    IF ~Truthy(sender) THEN <<>>
    ELSE IF AngleStart(sender) > 0 THEN LowerStr(Strip(AngleGroup(sender)))
    ELSE RemoveAngles(LowerStr(Strip(sender)))

(***************************************************************************)
(* The text pipeline shared by GmailParser._clean_body and the standalone  *)
(* clean_email_text.                                                       *)
(***************************************************************************)
ScriptName == <<"s", "c", "r", "i", "p", "t">>
StyleName  == <<"s", "t", "y", "l", "e">>

\* Index of the first c at or after position i of s, 0 if there is none.
IndexFrom(s, c, i) ==
    IF \E k \in i..Len(s) : s[k] = c
    THEN CHOOSE k \in i..Len(s) : s[k] = c /\ \A m \in i..(k - 1) : s[m] # c
    ELSE 0

\* Position just after the end tag </name ...> that follows position i,
\* Len(s) + 1 if the element is never closed.
AfterEndTag(s, name, i) ==
    LET hit(k) == /\ MatchAt(s, <<"<", "/">>, k)
                  /\ MatchAtCI(s, name, k + 2)
                  /\ IndexFrom(s, ">", k + 2) > 0
    IN IF \E k \in i..Len(s) : hit(k)
       THEN IndexFrom(s, ">", (CHOOSE k \in i..Len(s) :
                                   hit(k) /\ \A m \in i..(k - 1) : ~hit(m)) + 2) + 1
       ELSE Len(s) + 1

\* BeautifulSoup(text, 'html.parser'), decompose() of every script and style
\* element, get_text(): tags go, script and style elements go with their
\* content, character references in the text are decoded by the parser.
GetText(s) ==
    LET isTag(i) == /\ s[i] = "<"
                    /\ i + 1 <= Len(s)
                    /\ (IsUpper(s[i + 1]) \/ IsLower(s[i + 1]) \/ s[i + 1] = "/")
                    /\ IndexFrom(s, ">", i + 1) > 0
        h[i \in 1..(Len(s) + 1)] ==
            IF i > Len(s) THEN <<>>
            ELSE IF isTag(i)
                 THEN LET j == IndexFrom(s, ">", i + 1)
                      IN IF MatchAtCI(s, ScriptName, i + 1)
                         THEN h[AfterEndTag(s, ScriptName, j + 1)]
                         ELSE IF MatchAtCI(s, StyleName, i + 1)
                         THEN h[AfterEndTag(s, StyleName, j + 1)]
                         ELSE h[j + 1]
                 ELSE <<s[i]>> \o h[i + 1]
    IN Unescape(h[1])

\* re.sub(r'\n\s*\n', '\n\n', text)
CollapseBlankLines(s) ==
    LET runEnd(i) == CHOOSE k \in i..Len(s) :
                        /\ \A m \in (i + 1)..k : IsSpace(s[m])
                        /\ (k = Len(s) \/ ~IsSpace(s[k + 1]))
        lastNl(i) == IF \E q \in (i + 1)..runEnd(i) : s[q] = "\n"
                     THEN CHOOSE q \in (i + 1)..runEnd(i) :
                              s[q] = "\n" /\ \A m \in (q + 1)..runEnd(i) : s[m] # "\n"
                     ELSE 0
        h[i \in 1..(Len(s) + 1)] ==
            IF i > Len(s) THEN <<>>
            ELSE IF s[i] = "\n" /\ lastNl(i) > 0
                 THEN <<"\n", "\n">> \o h[lastNl(i) + 1]
                 ELSE <<s[i]>> \o h[i + 1]
    IN h[1]

\* re.sub(r'[ \t]+', ' ', text)
CollapseSpaces(s) ==
    LET blank(c) == c \in {" ", "\t"}
        f[i \in 0..Len(s)] ==
            IF i = 0 THEN <<>>
            ELSE IF ~blank(s[i]) THEN Append(f[i - 1], s[i])
            ELSE IF i > 1 /\ blank(s[i - 1]) THEN f[i - 1]
            ELSE Append(f[i - 1], " ")
    IN f[Len(s)]

\* Index of the last character of the line that holds position i.
LineEnd(s, i) == IF IndexFrom(s, "\n", i) > 0 THEN IndexFrom(s, "\n", i) - 1 ELSE Len(s)

\* re.sub(word + '.*', '', text, flags=re.IGNORECASE | re.MULTILINE): from
\* each occurrence of word to the end of its line.
RemoveToEol(s, word) ==
    LET h[i \in 1..(Len(s) + 1)] ==
            IF i > Len(s) THEN <<>>
            ELSE IF MatchAtCI(s, word, i) THEN h[LineEnd(s, i) + 1]
            ELSE <<s[i]>> \o h[i + 1]
    IN h[1]

\* re.sub(r'--\s*$', '', text, flags=re.IGNORECASE | re.MULTILINE): "--" and
\* the whitespace after it, up to the last end of line that whitespace reaches.
RemoveSeparator(s) ==
    LET ends(i) == {e \in (i + 1)..Len(s) :
                       /\ \A m \in (i + 2)..e : IsSpace(s[m])
                       /\ (e = Len(s) \/ s[e + 1] = "\n")}
        last(i) == CHOOSE e \in ends(i) : \A x \in ends(i) : x <= e
        h[i \in 1..(Len(s) + 1)] ==
            IF i > Len(s) THEN <<>>
            ELSE IF MatchAt(s, <<"-", "-">>, i) /\ ends(i) # {}
                 THEN h[last(i) + 1]
                 ELSE <<s[i]>> \o h[i + 1]
    IN h[1]

\* GmailParser.signature_patterns after the "--" separator, in order.
SignatureWords == <<<<"B", "e", "s", "t", " ", "r", "e", "g", "a", "r", "d", "s", ",">>,
                    <<"R", "e", "g", "a", "r", "d", "s", ",">>,
                    <<"C", "h", "e", "e", "r", "s", ",">>,
                    <<"T", "h", "a", "n", "k", " ", "y", "o", "u", ",">>,
                    <<"S", "e", "n", "t", " ", "f", "r", "o", "m">>,
                    <<"C", "o", "n", "f", "i", "d", "e", "n", "t", "i", "a", "l">>,
                    <<"T", "h", "i", "s", " ", "e", "m", "a", "i", "l">>>>

RECURSIVE RemoveWords(_, _)
RemoveWords(s, k) ==
    IF k > Len(SignatureWords) THEN s
    ELSE RemoveWords(RemoveToEol(s, SignatureWords[k]), k + 1)

StripSignatures(s) == RemoveWords(RemoveSeparator(s), 1)

\* int(os.getenv('MAX_EMAIL_LENGTH', 10000)); the modelled deployment sets
\* the variable to 6.
MAX_EMAIL_LENGTH == 6

Ellipsis == <<".", ".", ".">>

\* if len(text) > max_length: text = text[:max_length] + '...'
Truncate(s) == IF Len(s) > MAX_EMAIL_LENGTH THEN Take(s, MAX_EMAIL_LENGTH) \o Ellipsis ELSE s

\* Everything between the HTML step and the return of both cleaners.
CleanText(s) ==
    Strip(Truncate(StripSignatures(CollapseSpaces(CollapseBlankLines(Unescape(GetText(s)))))))

\* The result of a call: returned normally with a value, or raised (the value
\* is then the one-element sequence naming the exception).
Ok(v) == [raised |-> FALSE, value |-> v]
Raised(e) == [raised |-> TRUE, value |-> <<e>>]

\* gmail_parser.py imports re, logging, typing, bs4 and html at module level;
\* os is imported only inside clean_email_text.
OsImportedAtModuleLevel == FALSE

\* GmailParser._clean_body: the lookup os.getenv raises NameError where the
\* module has no os.
_clean_body(body) ==
    IF ~Truthy(body) THEN Ok(<<>>)
    ELSE IF ~OsImportedAtModuleLevel THEN Raised("NameError")
    ELSE Ok(CleanText(body))

\* clean_email_text, which imports os itself.
clean_email_text(text) == IF ~Truthy(text) THEN <<>> ELSE CleanText(text)

(***************************************************************************)
(* GmailParser._extract_features                                           *)
(***************************************************************************)
UrgentWords == {<<"u", "r", "g", "e", "n", "t">>,
                <<"i", "m", "p", "o", "r", "t", "a", "n", "t">>,
                <<"a", "s", "a", "p">>,
                <<"e", "m", "e", "r", "g", "e", "n", "c", "y">>}
CommonDomains == {<<"g", "m", "a", "i", "l", ".", "c", "o", "m">>,
                  <<"y", "a", "h", "o", "o", ".", "c", "o", "m">>,
                  <<"h", "o", "t", "m", "a", "i", "l", ".", "c", "o", "m">>,
                  <<"o", "u", "t", "l", "o", "o", "k", ".", "c", "o", "m">>,
                  <<"i", "c", "l", "o", "u", "d", ".", "c", "o", "m">>}
AttachmentWords == {<<"a", "t", "t", "a", "c", "h", "m", "e", "n", "t">>,
                    <<"a", "t", "t", "a", "c", "h", "e", "d">>}
CurrencyWords == {<<"d", "o", "l", "l", "a", "r">>,
                  <<"u", "s", "d">>,
                  <<"e", "u", "r">>,
                  <<"g", "b", "p">>}
MonthWords == {<<"j", "a", "n">>,
               <<"f", "e", "b">>,
               <<"m", "a", "r">>,
               <<"a", "p", "r">>,
               <<"m", "a", "y">>,
               <<"j", "u", "n">>,
               <<"j", "u", "l">>,
               <<"a", "u", "g">>,
               <<"s", "e", "p">>,
               <<"o", "c", "t">>,
               <<"n", "o", "v">>,
               <<"d", "e", "c">>}

\* \b before position i, where s[i] is a word character.
WordStart(s, i) == i = 1 \/ ~IsWordChar(s[i - 1])

\* sender.split('@')[-1] if '@' in sender else ''
SenderDomain(sender) ==
    IF \E i \in 1..Len(sender) : sender[i] = "@"
    THEN Drop(sender, CHOOSE i \in 1..Len(sender) :
                          sender[i] = "@" /\ \A j \in (i + 1)..Len(sender) : sender[j] # "@")
    ELSE <<>>

\* re.search(r'\$[\d,]+|\b\d+\s*(?:dollars?|usd|eur|gbp)', body, re.IGNORECASE)
ContainsMoney(body) ==
    \/ \E i \in 1..(Len(body) - 1) :
          body[i] = "$" /\ (IsDigit(body[i + 1]) \/ body[i + 1] = ",")
    \/ \E i \in 1..Len(body) : \E a \in i..Len(body) : \E b \in a..Len(body) :
          /\ WordStart(body, i)
          /\ \A m \in i..a : IsDigit(body[m])
          /\ \A m \in (a + 1)..b : IsSpace(body[m])
          /\ \E w \in CurrencyWords : MatchAtCI(body, w, b + 1)

\* re.search(r'\b\d{1,2}[-/]\d{1,2}[-/]\d{2,4}|\b(?:jan|feb|...|dec)', body, re.IGNORECASE)
ContainsDates(body) ==
    \/ \E i \in 1..Len(body) : \E d1 \in 1..2 : \E d2 \in 1..2 :
          LET p == i + d1
              q == p + 1 + d2
          IN /\ q + 2 <= Len(body)
             /\ WordStart(body, i)
             /\ \A m \in i..(p - 1) : IsDigit(body[m])
             /\ body[p] \in {"-", "/"}
             /\ \A m \in (p + 1)..(q - 1) : IsDigit(body[m])
             /\ body[q] \in {"-", "/"}
             /\ IsDigit(body[q + 1]) /\ IsDigit(body[q + 2])
    \/ \E i \in 1..Len(body) : \E w \in MonthWords :
          MatchAtCI(body, w, i) /\ WordStart(body, i)

_extract_features(subject, sender, body) ==
    [subject_length   |-> Len(subject),
     has_urgent       |-> \E w \in UrgentWords : ContainsCI(subject \o body, w),
     has_question     |-> (\E i \in 1..Len(subject) : subject[i] = "?")
                          \/ (\E i \in 1..Len(body) : body[i] = "?"),
     is_reply         |-> \/ MatchAt(LowerStr(subject), RePrefix, 1)
                          \/ MatchAt(LowerStr(subject), FwdPrefix, 1)
                          \/ MatchAt(LowerStr(subject), FwPrefix, 1),
     sender_domain    |-> SenderDomain(sender),
     is_common_domain |-> SenderDomain(sender) \in CommonDomains,
     body_length      |-> Len(body),
     has_links        |-> Contains(body, <<"h", "t", "t", "p", ":", "/", "/">>) \/ Contains(body, <<"h", "t", "t", "p", "s", ":", "/", "/">>),
     has_attachments  |-> \E w \in AttachmentWords : ContainsCI(body, w),
     contains_money   |-> ContainsMoney(body),
     contains_dates   |-> ContainsDates(body)]

(***************************************************************************)
(* GmailParser._is_promotional                                             *)
(***************************************************************************)
\* GmailParser.promotional_patterns; each is searched in the lower-cased
\* content, so its trailing .* adds nothing.
PromotionalPhrases == {<<"u", "n", "s", "u", "b", "s", "c", "r", "i", "b", "e">>,
                       <<"c", "l", "i", "c", "k", " ", "h", "e", "r", "e", " ", "t", "o", " ", "u", "n", "s", "u", "b", "s", "c", "r", "i", "b", "e">>,
                       <<"p", "r", "i", "v", "a", "c", "y", " ", "p", "o", "l", "i", "c", "y">>,
                       <<"t", "e", "r", "m", "s", " ", "o", "f", " ", "s", "e", "r", "v", "i", "c", "e">>}

\* The last of the promotional_patterns: the two characters the source file
\* holds before the blank (written here as the tokens "A^" and "(c)"), a
\* blank and four digits.  It is searched case-sensitively.
CopyrightMark == <<"A^", "(c)", " ">>

CopyrightNotice(content) ==
    \E i \in 1..Len(content) :
        /\ MatchAt(content, CopyrightMark, i)
        /\ i + Len(CopyrightMark) + 3 <= Len(content)
        /\ \A m \in 0..3 : IsDigit(content[i + Len(CopyrightMark) + m])

PromotionalWords == {<<"d", "e", "a", "l">>,
                     <<"o", "f", "f", "e", "r">>,
                     <<"d", "i", "s", "c", "o", "u", "n", "t">>,
                     <<"s", "a", "l", "e">>,
                     <<"f", "r", "e", "e">>,
                     <<"b", "u", "y", " ", "n", "o", "w">>,
                     <<"l", "i", "m", "i", "t", "e", "d", " ", "t", "i", "m", "e">>}

_is_promotional(subject, body) ==
    LET content == LowerStr(subject \o <<" ">> \o body)
        word_count == Cardinality({w \in PromotionalWords : Contains(content, w)})
    IN \/ \E ph \in PromotionalPhrases : Contains(content, ph)
       \/ CopyrightNotice(content)
       \/ word_count >= 2

(***************************************************************************)
(* GmailParser._calculate_priority_score.  Scores are counted in tenths:   *)
(* 3 stands for 0.3, ScoreMax for 1.0.                                     *)
(***************************************************************************)
ScoreMin == 0
ScoreMax == 10
ShortSubject == 50

\* dict.get(key, default)
Get(d, k, default) == IF k \in DOMAIN d THEN d[k] ELSE default

EmptyDict == [k \in {} |-> FALSE]

Max(a, b) == IF a >= b THEN a ELSE b
Min(a, b) == IF a <= b THEN a ELSE b

\* The sum before the clamp.
RawScore(features) ==
      (IF Get(features, "has_urgent", FALSE) THEN 3 ELSE 0)
    + (IF Get(features, "has_question", FALSE) THEN 2 ELSE 0)
    + (IF Get(features, "contains_money", FALSE) THEN 2 ELSE 0)
    + (IF Get(features, "subject_length", 0) < ShortSubject THEN 1 ELSE 0)
    - (IF Get(features, "is_common_domain", FALSE) THEN 1 ELSE 0)

\* A variant of the clamp without its lower bound: min(1.0, score).
ClampUpperOnly(score) == Min(ScoreMax, score)

\* return max(0.0, min(1.0, score))
Clamp(score) == Max(ScoreMin, Min(ScoreMax, score))

_calculate_priority_score(features) == Clamp(RawScore(features))

(***************************************************************************)
(* GmailParser.parse_email                                                 *)
(***************************************************************************)
\* The record of the except branch: the raw inputs, untransformed.
FallbackRecord(subject, sender, body, snippet) ==
    [subject        |-> subject,
     sender         |-> sender,
     body           |-> IF Truthy(body) THEN body ELSE snippet,
     features       |-> EmptyDict,
     is_promotional |-> FALSE,
     priority_score |-> 0]

\* The record of the try branch.
CleanRecord(subject, sender, body, snippet) ==
    LET clean_subject == _clean_subject(subject)
        clean_sender  == _clean_sender(sender)
        cleaned       == _clean_body(body).value
        clean_body    == IF ~Truthy(cleaned) /\ Truthy(snippet) THEN snippet ELSE cleaned
        features      == _extract_features(clean_subject, clean_sender, clean_body)
    IN [subject        |-> clean_subject,
        sender         |-> clean_sender,
        body           |-> clean_body,
        features       |-> features,
        is_promotional |-> _is_promotional(clean_subject, clean_body),
        priority_score |-> _calculate_priority_score(features)]

\* Whether the try block of parse_email raises (strings and None only: the
\* one step that can raise on them is _clean_body).
ParseRaises(subject, sender, body, snippet) == _clean_body(body).raised

parse_email(subject, sender, body, snippet) ==
    IF ParseRaises(subject, sender, body, snippet)
    THEN FallbackRecord(subject, sender, body, snippet)
    ELSE CleanRecord(subject, sender, body, snippet)

(***************************************************************************)
(* Category enumerations.                                                  *)
(***************************************************************************)
READ      == <<"R", "E", "A", "D">>
JOB       == <<"J", "O", "B">>
DELETE    == <<"D", "E", "L", "E", "T", "E">>
IMPORTANT == <<"I", "M", "P", "O", "R", "T", "A", "N", "T">>
Personal  == <<"P", "e", "r", "s", "o", "n", "a", "l">>
Work      == <<"W", "o", "r", "k">>
Spam      == <<"S", "p", "a", "m">>

\* api AIService.get_available_categories
Categories4 == {DELETE, JOB, READ, IMPORTANT}

\* backend AIService.categories
Categories12 == {Work, Personal, <<"I", "m", "p", "o", "r", "t", "a", "n", "t">>, <<"N", "e", "w", "s", "l", "e", "t", "t", "e", "r">>,
                 <<"S", "o", "c", "i", "a", "l">>, <<"F", "i", "n", "a", "n", "c", "e">>, <<"S", "h", "o", "p", "p", "i", "n", "g">>,
                 <<"T", "r", "a", "v", "e", "l">>, <<"H", "e", "a", "l", "t", "h">>, <<"E", "d", "u", "c", "a", "t", "i", "o", "n">>,
                 <<"E", "n", "t", "e", "r", "t", "a", "i", "n", "m", "e", "n", "t">>, Spam}

(***************************************************************************)
(* The remote provider: what one generate / completion call can do.        *)
(***************************************************************************)
\* kind "text": the call returned, with this action (api: response.parsed.action)
\* or this message text (backend); "unparsed": it returned nothing usable
\* (api: response.parsed is None); "error": it raised; "timeout": it raised
\* after the timeout.
Answer(kind, text) == [kind |-> kind, text |-> text]
NoAnswer == Answer("none", <<>>)

ApiAnswers ==
    {Answer("text", a) : a \in {READ, JOB, DELETE, Spam}}
        \cup {Answer("unparsed", <<>>), Answer("error", <<>>), Answer("timeout", <<>>)}

BackendAnswers ==
    {Answer("text", a) : a \in {Work, Personal, <<" ", "S", "p", "a", "m", "\n">>, READ, <<"w", "o", "r", "k">>, <<>>}}
        \cup {Answer("error", <<>>), Answer("timeout", <<>>)}

(***************************************************************************)
(* api/services/ai_service.py: the lazily initialised Gemini service.      *)
(***************************************************************************)
\* AIService._ensure_initialized.  keyFound: GEMINI_API_KEY is in the
\* environment or in .env; ctorOk: genai.Client(api_key=...) returns.
\* Gives the new client and flag, and whether the method raised.
\* self.client: None, or a genai.Client object, numbered so that an object
\* made later differs from the one held before.
NoClient == 0
NewClient(cl) == cl + 1

\* A variant without the early return on self._initialized: every call reads
\* the key and makes a client again.
EnsureInitializedEveryCall(cl, inited, keyFound, ctorOk) ==
    IF ~keyFound \/ ~ctorOk THEN [raised |-> TRUE, client |-> NoClient, initialized |-> inited]
    ELSE [raised |-> FALSE, client |-> NewClient(cl), initialized |-> TRUE]

_ensure_initialized(cl, inited, keyFound, ctorOk) ==
    IF inited THEN [raised |-> FALSE, client |-> cl, initialized |-> TRUE]
    ELSE IF ~keyFound THEN [raised |-> TRUE, client |-> NoClient, initialized |-> FALSE]
    ELSE IF ~ctorOk THEN [raised |-> TRUE, client |-> NoClient, initialized |-> FALSE]
    ELSE [raised |-> FALSE, client |-> NewClient(cl), initialized |-> TRUE]

\* content_to_analyze = snippet or body or subject, on parsed_content.get(.., '')
ContentToAnalyze(parsed) ==
    LET subject == Get(parsed, "subject", <<>>)
        body    == Get(parsed, "body", <<>>)
        snippet == Get(parsed, "snippet", <<>>)
    IN IF Truthy(snippet) THEN snippet ELSE IF Truthy(body) THEN body ELSE subject

\* The try block of api AIService.categorize_email, given what the call to
\* client.models.generate_content did.
ApiClassify(answer) ==
    IF answer.kind = "text" THEN answer.text ELSE READ

\* api AIService.categorize_email: the value returned or the exception raised.
\* The initialisation is outside the try block.
ApiCategorizeEmail(cl, inited, keyFound, ctorOk, answer) ==
    IF _ensure_initialized(cl, inited, keyFound, ctorOk).raised
    THEN Raised("ValueError")
    ELSE Ok(ApiClassify(answer))

(***************************************************************************)
(* backend/services/ai_service.py: OpenAI / Gemini with statistics.        *)
(***************************************************************************)
\* self.timeout = int(os.getenv('CATEGORIZATION_TIMEOUT', 30))
CATEGORIZATION_TIMEOUT == 30

\* Which provider _get_ai_categorization calls: "openai", "gemini" or "none".
ChosenProvider(default, openai, gemini) ==
    IF default = "openai" /\ openai THEN "openai"
    ELSE IF default = "gemini" /\ gemini THEN "gemini"
    ELSE IF openai THEN "openai"
    ELSE IF gemini THEN "gemini"
    ELSE "none"

\* _categorize_with_openai / _categorize_with_gemini after the call: the
\* stripped text if it is one of the categories, else None.
ValidatedCategory(answer) ==
    IF answer.kind = "text" /\ Strip(answer.text) \in Categories12
    THEN Strip(answer.text)
    ELSE None

\* AIService._get_ai_categorization
_get_ai_categorization(default, openai, gemini, answer) ==
    IF ChosenProvider(default, openai, gemini) = "none" THEN None
    ELSE ValidatedCategory(answer)

\* _create_categorization_prompt slices email_data.get('body', ''); a None
\* body raises TypeError, caught by categorize_email.
PromptRaises(email_data) == Get(email_data, "body", <<>>) = None

\* The category _get_ai_categorization hands to categorize_email, None when
\* the prompt could not be built.
BackendCategory(email_data, default, openai, gemini, answer) ==
    IF PromptRaises(email_data) THEN None
    ELSE _get_ai_categorization(default, openai, gemini, answer)

\* A variant of _get_ai_categorization that, when the chosen provider gives no
\* category, tries the other configured provider.
ProvidersCalledWithRetry(default, openai, gemini, answer) ==
    LET first == ChosenProvider(default, openai, gemini)
    IN IF first = "none" THEN <<>>
       ELSE IF ValidatedCategory(answer) # None THEN <<first>>
       ELSE IF first = "openai" /\ gemini THEN <<first, "gemini">>
       ELSE IF first = "gemini" /\ openai THEN <<first, "openai">>
       ELSE <<first>>

\* The providers _get_ai_categorization calls, in order: the one branch it
\* takes returns the result of one _categorize_with_* call, whatever it is.
ProvidersCalled(default, openai, gemini, answer) ==
    IF ChosenProvider(default, openai, gemini) = "none" THEN <<>>
    ELSE <<ChosenProvider(default, openai, gemini)>>

\* The providers one backend categorize_email call reaches.
BackendProvidersCalled(email_data, default, openai, gemini, answer) ==
    IF PromptRaises(email_data) THEN <<>>
    ELSE ProvidersCalled(default, openai, gemini, answer)

\* The providers one api categorize_email call reaches: one generate_content
\* call once the client is there.
ApiProvidersCalled(initRaised) == IF initRaised THEN <<>> ELSE <<"gemini">>

\* backend AIService.categorize_email: the value returned.
BackendCategorizeEmail(email_data, default, openai, gemini, answer) ==
    LET category == BackendCategory(email_data, default, openai, gemini, answer)
    IN IF Truthy(category) THEN Ok(category) ELSE Ok(Personal)

(***************************************************************************)
(* average_response_time is a Python float; the model keeps it as an exact *)
(* fraction in lowest terms, and measures time in whole ticks.             *)
(***************************************************************************)
RECURSIVE GCD(_, _)
GCD(a, b) == IF b = 0 THEN a ELSE GCD(b, a % b)

Abs(n) == IF n < 0 THEN 0 - n ELSE n

\* n / d in lowest terms, d > 0.
Rat(n, d) == LET g == GCD(Abs(n), d)
             IN IF n = 0 THEN [num |-> 0, den |-> 1] ELSE [num |-> n \div g, den |-> d \div g]
RatInt(n) == Rat(n, 1)
RatAdd(x, y) == Rat(x.num * y.den + y.num * x.den, x.den * y.den)
RatSub(x, y) == Rat(x.num * y.den - y.num * x.den, x.den * y.den)
RatMulInt(x, k) == Rat(x.num * k, x.den)
RatDivInt(x, k) == Rat(x.num, x.den * k)

\* A variant that divides by stats['total_requests'], the counter of all
\* calls, instead of the counter of successful ones.
UpdateResponseTimeByTotal(st, response_time) ==
    LET total_requests == st.total_requests
        current_avg    == st.average_response_time
    IN [st EXCEPT !.average_response_time =
            RatDivInt(RatAdd(RatMulInt(current_avg, total_requests - 1), RatInt(response_time)),
                      total_requests)]

\* AIService._update_response_time: called after the success counter has
\* been incremented, so total_requests >= 1 here.
_update_response_time(st, response_time) ==
    LET total_requests == st.successful_categorizations
        current_avg    == st.average_response_time
    IN [st EXCEPT !.average_response_time =
            RatDivInt(RatAdd(RatMulInt(current_avg, total_requests - 1), RatInt(response_time)),
                      total_requests)]

\* A variant whose failure branch of categorize_email does not count the
\* failure.
BackendStatsFailureUncounted(st, email_data, default, openai, gemini, answer, response_time) ==
    LET category == BackendCategory(email_data, default, openai, gemini, answer)
        entered  == [st EXCEPT !.total_requests = @ + 1]
    IN IF Truthy(category)
       THEN _update_response_time([entered EXCEPT !.successful_categorizations = @ + 1],
                                  response_time)
       ELSE entered

\* A variant that updates the average on the failure path too.
BackendStatsAlwaysTimed(st, email_data, default, openai, gemini, answer, response_time) ==
    LET category == BackendCategory(email_data, default, openai, gemini, answer)
        entered  == [st EXCEPT !.total_requests = @ + 1]
    IN IF Truthy(category)
       THEN _update_response_time([entered EXCEPT !.successful_categorizations = @ + 1],
                                  response_time)
       ELSE [_update_response_time([entered EXCEPT !.successful_categorizations = @ + 1],
                                   response_time)
                EXCEPT !.successful_categorizations = @ - 1, !.failed_requests = @ + 1]

\* The statistics after the call; response_time is time.time() - start_time
\* of the success branch.
BackendStats(st, email_data, default, openai, gemini, answer, response_time) ==
    LET category == BackendCategory(email_data, default, openai, gemini, answer)
        entered  == [st EXCEPT !.total_requests = @ + 1]
    IN IF Truthy(category)
       THEN _update_response_time([entered EXCEPT !.successful_categorizations = @ + 1],
                                  response_time)
       ELSE [entered EXCEPT !.failed_requests = @ + 1]

(***************************************************************************)
(* The keyword-only service that api/index.py imports (from ai_service     *)
(* import AIService): ordered keyword lists, first list with a match wins. *)
(***************************************************************************)
JobWords == {<<"j", "o", "b">>,
             <<"h", "i", "r", "i", "n", "g">>,
             <<"r", "e", "c", "r", "u", "i", "t", "e", "r">>,
             <<"a", "p", "p", "l", "i", "c", "a", "t", "i", "o", "n">>,
             <<"i", "n", "t", "e", "r", "v", "i", "e", "w">>,
             <<"p", "o", "s", "i", "t", "i", "o", "n">>,
             <<"c", "a", "r", "e", "e", "r">>,
             <<"l", "i", "n", "k", "e", "d", "i", "n">>,
             <<"i", "n", "d", "e", "e", "d">>,
             <<"z", "i", "p", "r", "e", "c", "r", "u", "i", "t", "e", "r">>}
ImportantWords == {<<"u", "r", "g", "e", "n", "t">>,
                   <<"i", "m", "p", "o", "r", "t", "a", "n", "t">>,
                   <<"a", "s", "a", "p">>,
                   <<"o", "t", "p">>,
                   <<"v", "e", "r", "i", "f", "i", "c", "a", "t", "i", "o", "n">>,
                   <<"p", "a", "s", "s", "w", "o", "r", "d">>,
                   <<"s", "e", "c", "u", "r", "i", "t", "y">>,
                   <<"a", "c", "c", "o", "u", "n", "t">>,
                   <<"b", "i", "l", "l", "i", "n", "g">>,
                   <<"i", "n", "v", "o", "i", "c", "e">>,
                   <<"p", "a", "y", "m", "e", "n", "t">>,
                   <<"d", "u", "e">>}
DeleteWords == {<<"s", "a", "l", "e">>,
                <<"d", "i", "s", "c", "o", "u", "n", "t">>,
                <<"o", "f", "f", "e", "r">>,
                <<"p", "r", "o", "m", "o", "t", "i", "o", "n">>,
                <<"m", "a", "r", "k", "e", "t", "i", "n", "g">>,
                <<"n", "e", "w", "s", "l", "e", "t", "t", "e", "r">>,
                <<"s", "p", "a", "m">>,
                <<"u", "n", "s", "u", "b", "s", "c", "r", "i", "b", "e">>,
                <<"a", "d", "v", "e", "r", "t", "i", "s", "e", "m", "e", "n", "t">>}

KeywordContent(parsed) ==
    LET str(v) == IF Truthy(v) THEN v ELSE <<>>
    IN LowerStr(str(Get(parsed, "subject", <<>>)) \o str(Get(parsed, "body", <<>>))
                    \o str(Get(parsed, "snippet", <<>>)))

\* A variant that tries the delete list before the job list.
KeywordCategorizeDeleteFirst(parsed) ==
    LET content == KeywordContent(parsed)
    IN IF \E w \in DeleteWords : Contains(content, w) THEN DELETE
       ELSE IF \E w \in JobWords : Contains(content, w) THEN JOB
       ELSE IF \E w \in ImportantWords : Contains(content, w) THEN IMPORTANT
       ELSE READ

KeywordCategorize(parsed) ==
    LET content == KeywordContent(parsed)
    IN IF \E w \in JobWords : Contains(content, w) THEN JOB
       ELSE IF \E w \in ImportantWords : Contains(content, w) THEN IMPORTANT
       ELSE IF \E w \in DeleteWords : Contains(content, w) THEN DELETE
       ELSE READ

(***************************************************************************)
(* POST /categorize (api/index.py and backend/app.py hold the same code).  *)
(***************************************************************************)
Response(status, error, category) == [status |-> status, error |-> error, category |-> category]
NoResponse == Response(0, "", None)

DataFields == {"subject", "sender", "body", "snippet", "other"}

\* if not data: the JSON body is null or an object without keys.
Falsy(d) == \A k \in DataFields : d[k] = Absent

\* A variant of the validation loop that looks for sender before subject.
MissingFieldSenderFirst(d) == IF d.sender = Absent THEN "sender"
                              ELSE IF d.subject = Absent THEN "subject"
                              ELSE ""

\* The first of required_fields that data lacks, "" if it holds both.
MissingField(d) == IF d.subject = Absent THEN "subject"
                   ELSE IF d.sender = Absent THEN "sender"
                   ELSE ""

MissingMessage(field) == IF field = "subject" THEN "Missing required field: subject"
                         ELSE "Missing required field: sender"

\* The request is answered 400 before anything is parsed.
Rejected(d) == Falsy(d) \/ MissingField(d) # ""

RejectedResponse(d) ==
    IF Falsy(d) THEN Response(400, "No data provided", None)
    ELSE Response(400, MissingMessage(MissingField(d)), None)

\* data.get(key, '')
DataGet(d, k) == IF d[k] = Absent THEN <<>> ELSE d[k]

\* parsed_content = gmail_parser.parse_email(subject, sender, body, snippet)
ParsedContent(d) ==
    parse_email(DataGet(d, "subject"), DataGet(d, "sender"), DataGet(d, "body"), DataGet(d, "snippet"))

\* The response once the service call has returned or raised.
ServedResponse(r) ==
    IF r.raised THEN Response(500, "Internal server error", None)
    ELSE Response(200, "", r.value)


(***************************************************************************)
(* State.                                                                  *)
(***************************************************************************)
VARIABLES
    npc,               \* a direct run of the normalizer: "idle", "start", "parsed", "reparsed"
    raw,               \* the raw subject, sender, body and snippet of that run
    rec,               \* the record parse_email returned last
    rec2,              \* the record of the second pass, fed with the first one's fields
    variant,           \* the deployment: "api" (index.py with the Gemini service),
                       \* "keyword" (index.py with the keyword service), "backend" (app.py)
    pc,                \* the POST /categorize request: "idle", "pending", "done"
    data,              \* request.get_json() of the request
    answer,            \* what the provider did with the outbound call of the request
    prompt,            \* what the outbound call carried
    ret,               \* what ai_service.categorize_email returned or raised
    resp,              \* the HTTP response
    parserCalls,       \* calls of parse_email made for the request
    classifierCalls,   \* calls of categorize_email made for the request
    outbound,          \* the providers called for the request, in the order of the calls
    client,            \* api AIService.client: NoClient or the number of a client object
    _initialized,      \* api AIService._initialized
    openai_client,     \* backend AIService.openai_client is set
    gemini_model,      \* backend AIService.gemini_model is set
    default_provider,  \* backend AIService.default_provider
    stats,             \* backend AIService.stats
    times,             \* the response_time of the last successful backend call, and
                       \* the sum of the response times of all successful calls
    th,                \* per worker thread of a threaded host: where it is in
                       \* categorize_email, and its locals
    started            \* categorize_email calls begun by the worker threads

normVars == <<npc, raw, rec2>>
reqVars == <<data, answer, prompt, ret, resp, parserCalls, classifierCalls, outbound>>
apiVars == <<client, _initialized>>
threadVars == <<th, started>>
backendConf == <<openai_client, gemini_model, default_provider>>
vars == <<npc, raw, rec, rec2, variant, pc, data, answer, prompt, ret, resp, parserCalls,
          classifierCalls, outbound, client, _initialized, openai_client, gemini_model,
          default_provider, stats, times, th, started>>

NoRecord == FallbackRecord(<<>>, <<>>, <<>>, <<>>)
NoRaw == [subject |-> <<>>, sender |-> <<>>, body |-> <<>>, snippet |-> <<>>]
NoData == [k \in DataFields |-> Absent]
NoRet == Ok(<<>>)
NoPrompt == [subject |-> <<>>, content |-> <<>>]

\* backend AIService.__init__: self.stats
InitialStats == [total_requests |-> 0, successful_categorizations |-> 0, failed_requests |-> 0,
                 average_response_time |-> RatInt(0)]

NoTimes == [last |-> 0, sum |-> 0]

\* time.time() - start_time of a call, in ticks.
ElapsedTimes == {1, 2}

(***************************************************************************)
(* Inputs of the normalizer runs.  Strings are concatenations of chunks.   *)
(***************************************************************************)
MaxChunks == 3

RECURSIVE Concats(_, _)
Concats(chunks, n) ==
    IF n = 0 THEN {<<>>}
    ELSE LET shorter == Concats(chunks, n - 1)
         IN shorter \cup {p \o c : p \in shorter, c \in chunks}

SubjectChunks == {<<"R", "e", ":">>, <<"F", "W", "D", ":">>, <<"f", "w", ":">>, <<" ">>, <<" ", " ", " ">>, <<"x">>, <<"&">>, <<"a", "m", "p", ";">>}

\* A subject of exactly ShortSubject characters: not a short one.
LongSubject == [i \in 1..ShortSubject |-> "x"]

\* A body longer than MAX_EMAIL_LENGTH.
LongBody == [i \in 1..(MAX_EMAIL_LENGTH + 1) |-> "b"]

\* Runs that exercise subject cleaning.
SubjectRuns ==
    [subject : Concats(SubjectChunks, MaxChunks) \cup {None},
     sender  : {<<"a", "@", "x", ".", "y">>},
     body    : {None, <<>>, <<"b">>},
     snippet : {<<>>}]

\* Runs that exercise the features, the score, the snippet and truncation.
FeatureRuns ==
    [subject : {base \o u \o q : base \in {<<"x">>, LongSubject},
                                 u \in {<<>>, <<" ", "A", "S", "A", "P">>},
                                 q \in {<<>>, <<"?">>}},
     sender  : {None, <<"A", "l", " ", "<", "A", "@", "G", "m", "a", "i", "l", ".", "c", "o", "m", ">">>, <<"b", "@", "x", ".", "o", "r", "g">>},
     body    : {None, <<>>, <<"b">>, LongBody, <<"-", "-", "-", "-">>},
     snippet : {None, <<>>, <<"$", "5">>, <<"s", "a", "l", "e", " ", "d", "e", "a", "l">>}]

NormalizerRuns == SubjectRuns \cup FeatureRuns

(***************************************************************************)
(* The JSON bodies of the modelled requests.                               *)
(***************************************************************************)
RequestBodies ==
    [subject : {Absent, None, <<"x">>, <<"R", "e", ":", " ", "J", "o", "b", " ", "s", "a", "l", "e">>, <<"o", "t", "p", " ", "s", "a", "l", "e">>, <<"S", "a", "l", "e">>},
     sender  : {Absent, <<"a", "@", "x", ".", "y">>},
     body    : {Absent, None, <<"b">>},
     snippet : {Absent, <<"d", "u", "e">>},
     other   : {Absent, <<"1">>}]

\* Requests the backend service counts before the model stops taking more.
MaxRequests == 3

(***************************************************************************)
(* Worker threads of a threaded host (app.run serves each request on its   *)
(* own thread; ai_service is one module-level object shared by all).       *)
(***************************************************************************)
MaxThreads == 2
Threads == 1..MaxThreads

\* categorize_email calls the worker threads begin before the model stops.
MaxCalls == 3

\* A provider call made without a timeout argument.
NoTimeout == 0

\* A thread outside categorize_email that has completed `calls` calls.
IdleThread(calls) ==
    [pc |-> "idle", email |-> EmptyDict, tmp |-> 0, n |-> 0, avg |-> RatInt(0), e |-> 0,
     category |-> None, outbound |-> <<>>, deadline |-> NoTimeout, timedOut |-> FALSE,
     ret |-> NoRet, calls |-> calls]

\* The email_data of the threads' calls: a parsed record, and a record whose
\* body is None.
ThreadEmails ==
    {parse_email(<<"x">>, <<"a", "@", "x", ".", "y">>, <<"b">>, <<>>),
     [subject |-> <<"x">>, sender |-> <<"a", "@", "x", ".", "y">>, body |-> None]}

(***************************************************************************)
(* The normalizer called directly.                                         *)
(***************************************************************************)
ServiceIdle ==
    /\ pc = "idle"
    /\ th = [t \in Threads |-> IdleThread(0)]
    /\ started = 0
    /\ data = NoData
    /\ answer = NoAnswer
    /\ prompt = NoPrompt
    /\ ret = NoRet
    /\ resp = NoResponse
    /\ parserCalls = 0
    /\ classifierCalls = 0
    /\ outbound = <<>>
    /\ client = NoClient
    /\ _initialized = FALSE
    /\ stats = InitialStats
    /\ times = NoTimes

InitNormalizer ==
    /\ npc = "start"
    /\ raw \in NormalizerRuns
    /\ rec = NoRecord
    /\ rec2 = NoRecord
    /\ variant = "none"
    /\ ServiceIdle
    /\ openai_client = FALSE
    /\ gemini_model = FALSE
    /\ default_provider = "openai"

\* gmail_parser.parse_email(subject, sender, body, snippet)
ParseEmail ==
    /\ npc = "start"
    /\ rec' = parse_email(raw.subject, raw.sender, raw.body, raw.snippet)
    /\ npc' = "parsed"
    /\ UNCHANGED <<raw, rec2, variant, pc, reqVars, apiVars, backendConf, stats, times, threadVars>>

\* parse_email again, on the subject, sender and body of the record it returned.
Reparse ==
    /\ npc = "parsed"
    /\ rec2' = parse_email(rec.subject, rec.sender, rec.body, raw.snippet)
    /\ npc' = "reparsed"
    /\ UNCHANGED <<raw, rec, variant, pc, reqVars, apiVars, backendConf, stats, times, threadVars>>

NextNormalizer == ParseEmail \/ Reparse

SpecNormalizer == InitNormalizer /\ [][NextNormalizer]_vars

(***************************************************************************)
(* The deployments serving POST /categorize.                               *)
(***************************************************************************)
\* The state after the module-level construction of the services.  The
\* backend reads OPENAI_API_KEY, GEMINI_API_KEY and DEFAULT_AI_PROVIDER once.
Init ==
    /\ npc = "idle"
    /\ raw = NoRaw
    /\ rec = NoRecord
    /\ rec2 = NoRecord
    /\ variant \in {"api", "keyword", "backend"}
    /\ ServiceIdle
    /\ IF variant = "backend"
       THEN /\ openai_client \in BOOLEAN
            /\ gemini_model \in BOOLEAN
            /\ default_provider \in {"openai", "gemini", "other"}
       ELSE /\ openai_client = FALSE
            /\ gemini_model = FALSE
            /\ default_provider = "openai"

\* A request arrives.
ReceiveRequest ==
    /\ pc = "idle"
    /\ variant # "none"
    /\ stats.total_requests < MaxRequests
    /\ \E d \in RequestBodies : data' = d
    /\ pc' = "pending"
    /\ UNCHANGED <<normVars, rec, variant, answer, prompt, ret, resp, parserCalls,
                   classifierCalls, outbound, apiVars, backendConf, stats, times, threadVars>>

\* The handler returns before parsing: 400.
Reject ==
    /\ resp' = RejectedResponse(data)
    /\ pc' = "done"
    /\ UNCHANGED <<normVars, rec, variant, data, answer, prompt, ret, parserCalls,
                   classifierCalls, outbound, apiVars, backendConf, stats, times, threadVars>>

\* api/index.py categorize_email with api/services/ai_service.py behind it.
CategorizeApi ==
    /\ pc = "pending"
    /\ variant = "api"
    /\ IF Rejected(data) THEN Reject
       ELSE \E parsed \in {ParsedContent(data)} :
            \E keyFound \in BOOLEAN, ctorOk \in BOOLEAN, a \in ApiAnswers :
            LET init   == _ensure_initialized(client, _initialized, keyFound, ctorOk)
                r      == ApiCategorizeEmail(client, _initialized, keyFound, ctorOk, a)
            IN /\ rec' = parsed
               /\ parserCalls' = 1
               /\ classifierCalls' = 1
               /\ client' = init.client
               /\ _initialized' = init.initialized
               /\ outbound' = ApiProvidersCalled(init.raised)
               /\ answer' = IF init.raised THEN NoAnswer ELSE a
               /\ prompt' = IF init.raised THEN NoPrompt
                            ELSE [subject |-> Get(parsed, "subject", <<>>),
                                  content |-> clean_email_text(ContentToAnalyze(parsed))]
               /\ ret' = r
               /\ resp' = ServedResponse(r)
               /\ pc' = "done"
               /\ UNCHANGED <<normVars, variant, data, backendConf, stats, times, threadVars>>

\* api/index.py categorize_email with the keyword service behind it.
CategorizeKeyword ==
    /\ pc = "pending"
    /\ variant = "keyword"
    /\ IF Rejected(data) THEN Reject
       ELSE \E parsed \in {ParsedContent(data)} :
            LET r      == Ok(KeywordCategorize(parsed))
            IN /\ rec' = parsed
               /\ parserCalls' = 1
               /\ classifierCalls' = 1
               /\ ret' = r
               /\ resp' = ServedResponse(r)
               /\ pc' = "done"
               /\ UNCHANGED <<normVars, variant, data, answer, prompt, outbound, apiVars,
                              backendConf, stats, times, threadVars>>

\* backend/app.py categorize_email with backend/services/ai_service.py behind it.
CategorizeBackend ==
    /\ pc = "pending"
    /\ variant = "backend"
    /\ IF Rejected(data) THEN Reject
       ELSE \E parsed \in {ParsedContent(data)} :
            \E a \in BackendAnswers :
            LET called == BackendProvidersCalled(parsed, default_provider, openai_client,
                                                 gemini_model, a) # <<>>
                r      == BackendCategorizeEmail(parsed, default_provider, openai_client,
                                                 gemini_model, a)
                succeeded == Truthy(BackendCategory(parsed, default_provider, openai_client,
                                                    gemini_model, a))
            IN /\ rec' = parsed
               /\ parserCalls' = 1
               /\ classifierCalls' = 1
               /\ outbound' = BackendProvidersCalled(parsed, default_provider, openai_client,
                                                     gemini_model, a)
               /\ answer' = IF called THEN a ELSE NoAnswer
               /\ prompt' = IF called
                            THEN [subject |-> Get(parsed, "subject", <<>>),
                                  content |-> IF Truthy(Take(Get(parsed, "body", <<>>), 2000))
                                              THEN Take(Get(parsed, "body", <<>>), 2000)
                                              ELSE Get(parsed, "snippet", <<>>)]
                            ELSE NoPrompt
               /\ \E e \in IF succeeded THEN ElapsedTimes ELSE {0} :
                      /\ stats' = BackendStats(stats, parsed, default_provider, openai_client,
                                               gemini_model, a, e)
                      /\ times' = IF succeeded THEN [last |-> e, sum |-> times.sum + e]
                                  ELSE times
               /\ ret' = r
               /\ resp' = ServedResponse(r)
               /\ pc' = "done"
               /\ UNCHANGED <<normVars, variant, data, apiVars, backendConf, threadVars>>

\* The response has gone out; the request is over.
SendResponse ==
    /\ pc = "done"
    /\ pc' = "idle"
    /\ data' = NoData
    /\ answer' = NoAnswer
    /\ prompt' = NoPrompt
    /\ ret' = NoRet
    /\ resp' = NoResponse
    /\ parserCalls' = 0
    /\ classifierCalls' = 0
    /\ outbound' = <<>>
    /\ rec' = NoRecord
    /\ UNCHANGED <<normVars, variant, apiVars, backendConf, stats, times, threadVars>>

Next == ReceiveRequest \/ CategorizeApi \/ CategorizeKeyword \/ CategorizeBackend \/ SendResponse

Spec == Init /\ [][Next]_vars

(***************************************************************************)
(* categorize_email run by several worker threads on the one shared        *)
(* service object.  A thread can be switched out between any two accesses  *)
(* of shared state, so each read and each write of self.stats, self.client *)
(* and self._initialized is a step of its own: `x += 1` on a dict entry is *)
(* a read followed by a write.                                             *)
(***************************************************************************)
\* The counter a thread at this position reads or writes, and where it goes
\* after the write.
CounterAt(p) ==
    IF p \in {"load_total", "store_total"} THEN "total_requests"
    ELSE IF p \in {"load_succ", "store_succ"} THEN "successful_categorizations"
    ELSE "failed_requests"
AfterStore(p) ==
    IF p = "store_total" THEN "call"
    ELSE IF p = "store_succ" THEN "load_avg"
    ELSE "return"
StoreOf(p) ==
    IF p = "load_total" THEN "store_total"
    ELSE IF p = "load_succ" THEN "store_succ"
    ELSE "store_failed"

\* The timeout argument of the provider call: _categorize_with_openai passes
\* timeout=self.timeout; _categorize_with_gemini and the api service's
\* generate_content pass none.
CallTimeout(service, provider) ==
    IF service = "backend" /\ provider = "openai" THEN CATEGORIZATION_TIMEOUT ELSE NoTimeout

\* The provider outcomes that are answers of the provider (a timeout is the
\* client's own doing, see TimeoutExpires).
ThreadAnswers(service) ==
    {a \in (IF service = "backend" THEN BackendAnswers ELSE ApiAnswers) : a.kind # "timeout"}

ThreadsInit ==
    /\ npc = "idle"
    /\ raw = NoRaw
    /\ rec = NoRecord
    /\ rec2 = NoRecord
    /\ variant \in {"api", "backend"}
    /\ ServiceIdle
    /\ IF variant = "backend"
       THEN /\ openai_client \in BOOLEAN
            /\ gemini_model \in BOOLEAN
            /\ default_provider \in {"openai", "gemini"}
       ELSE /\ openai_client = FALSE
            /\ gemini_model = FALSE
            /\ default_provider = "openai"

\* A worker thread enters categorize_email (start_time = time.time()).
BeginCall ==
    \E t \in Threads, email \in ThreadEmails :
        /\ th[t].pc = "idle"
        /\ started < MaxCalls
        /\ started' = started + 1
        /\ th' = [th EXCEPT ![t].pc = IF variant = "backend" THEN "load_total" ELSE "a_check",
                            ![t].email = email]
        /\ UNCHANGED <<normVars, rec, variant, pc, reqVars, apiVars, backendConf, stats, times>>

\* self.stats[counter] += 1, first half: the thread reads the counter.
LoadCounter ==
    \E t \in Threads :
        /\ th[t].pc \in {"load_total", "load_succ", "load_failed"}
        /\ th' = [th EXCEPT ![t].tmp = stats[CounterAt(th[t].pc)],
                            ![t].pc = StoreOf(th[t].pc)]
        /\ UNCHANGED <<normVars, rec, variant, pc, reqVars, apiVars, backendConf, stats, times,
                       started>>

\* self.stats[counter] += 1, second half: the thread writes what it read, plus one.
StoreCounter ==
    \E t \in Threads :
        /\ th[t].pc \in {"store_total", "store_succ", "store_failed"}
        /\ stats' = [stats EXCEPT ![CounterAt(th[t].pc)] = th[t].tmp + 1]
        /\ th' = [th EXCEPT ![t].pc = AfterStore(th[t].pc),
                            ![t].ret = IF th[t].pc = "store_failed" THEN Ok(Personal) ELSE @]
        /\ UNCHANGED <<normVars, rec, variant, pc, reqVars, apiVars, backendConf, times, started>>

\* _create_categorization_prompt and _get_ai_categorization up to the
\* provider call: no prompt or no provider is a failure, else the call goes out.
CallProvider ==
    \E t \in Threads :
        /\ th[t].pc = "call"
        /\ LET called == BackendProvidersCalled(th[t].email, default_provider, openai_client,
                                                 gemini_model, NoAnswer)
           IN th' = IF called = <<>>
                    THEN [th EXCEPT ![t].pc = "load_failed"]
                    ELSE [th EXCEPT ![t].pc = "calling",
                                    ![t].outbound = called,
                                    ![t].deadline = CallTimeout("backend", called[1])]
        /\ UNCHANGED <<normVars, rec, variant, pc, reqVars, apiVars, backendConf, stats, times,
                       started>>

\* The provider answers, or the call raises on its own account.
ProviderAnswers ==
    \E t \in Threads, a \in ThreadAnswers(variant) :
        /\ th[t].pc = "calling"
        /\ th' = IF variant = "backend"
                 THEN [th EXCEPT ![t].category = ValidatedCategory(a),
                                 ![t].pc = IF ValidatedCategory(a) # None THEN "load_succ"
                                           ELSE "load_failed"]
                 ELSE [th EXCEPT ![t].ret = Ok(ApiClassify(a)),
                                 ![t].pc = "return"]
        /\ UNCHANGED <<normVars, rec, variant, pc, reqVars, apiVars, backendConf, stats, times,
                       started>>

\* The timeout passed with the call runs out: the client raises, and the
\* except branch of _categorize_with_openai returns None.
TimeoutExpires ==
    \E t \in Threads :
        /\ th[t].pc = "calling"
        /\ th[t].deadline # NoTimeout
        /\ th' = [th EXCEPT ![t].timedOut = TRUE, ![t].pc = "load_failed"]
        /\ UNCHANGED <<normVars, rec, variant, pc, reqVars, apiVars, backendConf, stats, times,
                       started>>

\* _update_response_time, first half: response_time is taken, the success
\* counter and the average are read.
LoadAverage ==
    \E t \in Threads, e \in ElapsedTimes :
        /\ th[t].pc = "load_avg"
        /\ th' = [th EXCEPT ![t].e = e,
                            ![t].n = stats.successful_categorizations,
                            ![t].avg = stats.average_response_time,
                            ![t].pc = "store_avg"]
        /\ UNCHANGED <<normVars, rec, variant, pc, reqVars, apiVars, backendConf, stats, times,
                       started>>

\* _update_response_time, second half: the new average is written.
StoreAverage ==
    \E t \in Threads :
        /\ th[t].pc = "store_avg"
        /\ stats' = [stats EXCEPT !.average_response_time =
                        _update_response_time(
                            [stats EXCEPT !.successful_categorizations = th[t].n,
                                          !.average_response_time = th[t].avg],
                            th[t].e).average_response_time]
        /\ times' = [last |-> th[t].e, sum |-> times.sum + th[t].e]
        /\ th' = [th EXCEPT ![t].ret = Ok(th[t].category), ![t].pc = "return"]
        /\ UNCHANGED <<normVars, rec, variant, pc, reqVars, apiVars, backendConf, started>>

\* api _ensure_initialized: if self._initialized: return
CheckInitialized ==
    \E t \in Threads :
        /\ th[t].pc = "a_check"
        /\ th' = [th EXCEPT ![t].pc = IF _initialized THEN "a_call" ELSE "a_create"]
        /\ UNCHANGED <<normVars, rec, variant, pc, reqVars, apiVars, backendConf, stats, times,
                       started>>

\* api _ensure_initialized: the key is read and the client made and stored,
\* or the client is set to None and the exception leaves categorize_email.
CreateClient ==
    \E t \in Threads, keyFound \in BOOLEAN, ctorOk \in BOOLEAN :
        /\ th[t].pc = "a_create"
        /\ LET init == _ensure_initialized(client, FALSE, keyFound, ctorOk)
           IN /\ client' = init.client
              /\ th' = IF init.raised
                       THEN [th EXCEPT ![t].ret = Raised("ValueError"), ![t].pc = "return"]
                       ELSE [th EXCEPT ![t].pc = "a_flag"]
        /\ UNCHANGED <<normVars, rec, variant, pc, reqVars, _initialized, backendConf, stats,
                       times, started>>

\* api _ensure_initialized: self._initialized = True
SetInitialized ==
    \E t \in Threads :
        /\ th[t].pc = "a_flag"
        /\ _initialized' = TRUE
        /\ th' = [th EXCEPT ![t].pc = "a_call"]
        /\ UNCHANGED <<normVars, rec, variant, pc, reqVars, client, backendConf, stats, times,
                       started>>

\* api categorize_email: self.client.models.generate_content(...); with the
\* client reset to None by another thread the attribute access raises and
\* the except branch returns READ.
ApiCall ==
    \E t \in Threads :
        /\ th[t].pc = "a_call"
        /\ th' = IF client = NoClient
                 THEN [th EXCEPT ![t].ret = Ok(READ), ![t].pc = "return"]
                 ELSE [th EXCEPT ![t].pc = "calling",
                                 ![t].outbound = ApiProvidersCalled(FALSE),
                                 ![t].deadline = CallTimeout("api", "gemini")]
        /\ UNCHANGED <<normVars, rec, variant, pc, reqVars, apiVars, backendConf, stats, times,
                       started>>

\* categorize_email returns (or raises) to the handler of the thread.
Return ==
    \E t \in Threads :
        /\ th[t].pc = "return"
        /\ th' = [th EXCEPT ![t] = IdleThread(th[t].calls + 1)]
        /\ UNCHANGED <<normVars, rec, variant, pc, reqVars, apiVars, backendConf, stats, times,
                       started>>

ThreadsNext ==
    \/ BeginCall \/ LoadCounter \/ StoreCounter \/ CallProvider \/ ProviderAnswers
    \/ TimeoutExpires \/ LoadAverage \/ StoreAverage \/ CheckInitialized \/ CreateClient
    \/ SetInitialized \/ ApiCall \/ Return

SpecThreads == ThreadsInit /\ [][ThreadsNext]_vars

(***************************************************************************)
(* Properties of the normalizer.                                           *)
(***************************************************************************)
HasAmp(s) == \E i \in 1..Len(s) : s[i] = "&"

\* C4: parse_email returns a record whose subject, sender and body are not
\* null, whatever the inputs (features, is_promotional and priority_score are
\* values in both branches).
C4_RecordFieldsNonNull ==
    npc = "parsed" => rec.subject # None /\ rec.sender # None /\ rec.body # None

\* C4, reached: a null subject with a body that makes _clean_body raise.
C4_NullSubjectFallback ==
    npc = "parsed" /\ raw.subject = None /\ ParseRaises(raw.subject, raw.sender, raw.body, raw.snippet)

\* C6: a body longer than MAX_EMAIL_LENGTH comes back MAX_EMAIL_LENGTH + 3
\* characters long and ending in "...".
C6_LongBodyTruncated ==
    (npc = "parsed" /\ Truthy(raw.body) /\ Len(raw.body) > MAX_EMAIL_LENGTH)
        => /\ Len(rec.body) = MAX_EMAIL_LENGTH + 3
           /\ SubSeq(rec.body, Len(rec.body) - 2, Len(rec.body)) = Ellipsis

\* C7: the subject of the record is the raw subject with exactly one leading
\* reply/forward prefix removed (the rest cleaned of whitespace and entities);
\* a subject without a prefix that is already clean comes back unchanged.
C7_OnePrefixStripped ==
    (npc = "parsed" /\ Truthy(raw.subject)) =>
        IF HasPrefix(raw.subject)
        THEN rec.subject =
                Strip(Unescape(SplitJoin(LStrip(Drop(raw.subject, PrefixLen(raw.subject))))))
        ELSE (Strip(Unescape(SplitJoin(raw.subject))) = raw.subject) => rec.subject = raw.subject

\* C8: priority_score of every record returned lies in [0.0, 1.0], on the
\* clean path and on the fallback path, first and second pass.
C8_PriorityScoreInRange ==
    /\ npc \in {"parsed", "reparsed"} => rec.priority_score \in ScoreMin..ScoreMax
    /\ npc = "reparsed" => rec2.priority_score \in ScoreMin..ScoreMax

\* C8, reached: a clean-path record whose sum is below zero (a long subject
\* from a common domain, no other flag) and whose score is clamped to 0.
C8_ClampedAtZero ==
    /\ npc = "parsed"
    /\ ~ParseRaises(raw.subject, raw.sender, raw.body, raw.snippet)
    /\ rec.features.is_common_domain
    /\ RawScore(rec.features) < ScoreMin
    /\ rec.priority_score = ScoreMin

Enumeration == IF variant = "backend" THEN Categories12 ELSE Categories4
DefaultLabel == IF variant = "backend" THEN Personal ELSE READ

\* The label the provider answered with, as the service reads it.
AnsweredLabel == IF variant = "backend" THEN Strip(answer.text) ELSE answer.text

\* C1: categorize_email never raises and returns a member of the closed
\* enumeration of the deployment, whatever the provider and the
\* initialisation did.
C1_AlwaysALabel ==
    (pc = "done" /\ classifierCalls = 1) => ~ret.raised /\ ret.value \in Enumeration

\* C2: a provider answer outside the enumeration gives the default label.
C2_InvalidLabelGivesDefault ==
    (pc = "done" /\ classifierCalls = 1 /\ answer.kind = "text" /\ AnsweredLabel \notin Enumeration)
        => ~ret.raised /\ ret.value = DefaultLabel

\* C3: a request that carries subject and sender is answered 200 with a
\* category, whatever the provider did; never 500.
C3_ProviderErrorsStill200 ==
    (pc = "done" /\ data.subject # Absent /\ data.sender # Absent)
        => resp.status = 200 /\ resp.category # None

\* C5 as stated: a body that lacks subject or sender is answered 400 with
\* "Missing required field: <field>", subject before sender, and neither
\* parse_email nor categorize_email is called.
C5_MissingFieldNamed ==
    (pc = "done" /\ (data.subject = Absent \/ data.sender = Absent)) =>
        /\ resp.status = 400
        /\ resp.error = IF data.subject = Absent THEN "Missing required field: subject"
                        ELSE "Missing required field: sender"
        /\ parserCalls = 0
        /\ classifierCalls = 0

\* C5 amended: the same for a body that holds at least one key; a body
\* without any key (or null) is answered 400 "No data provided"; in both
\* cases nothing is parsed or classified.
C5_MissingFieldNamedUnlessEmpty ==
    (pc = "done" /\ (data.subject = Absent \/ data.sender = Absent)) =>
        /\ resp.status = 400
        /\ resp.error = IF \A k \in DataFields : data[k] = Absent THEN "No data provided"
                        ELSE IF data.subject = Absent THEN "Missing required field: subject"
                        ELSE "Missing required field: sender"
        /\ parserCalls = 0
        /\ classifierCalls = 0
        /\ ret = NoRet

\* C5, reached: subject given, sender missing, the answer names sender.
C5_SenderMissing ==
    /\ pc = "done"
    /\ data.subject # Absent
    /\ data.sender = Absent
    /\ resp.status = 400
    /\ resp.error = "Missing required field: sender"

YieldedValidLabel(called, a) == Len(called) = 1 /\ ValidatedCategory(a) # None

\* C11: a categorize_email call adds one to total_requests; when it got a
\* valid label it adds one to successful_categorizations and moves
\* average_response_time to take in its response time; otherwise it adds one
\* to failed_requests and leaves the other two as they were.
C11_StatsFollowOutcome ==
    [][(variant = "backend" /\ pc = "pending" /\ pc' = "done" /\ classifierCalls' = 1) =>
        /\ stats'.total_requests = stats.total_requests + 1
        /\ IF YieldedValidLabel(outbound', answer')
           THEN /\ stats'.successful_categorizations = stats.successful_categorizations + 1
                /\ stats'.failed_requests = stats.failed_requests
                /\ RatMulInt(stats'.average_response_time, stats'.successful_categorizations)
                       = RatAdd(RatMulInt(stats.average_response_time,
                                          stats.successful_categorizations),
                                RatInt(times'.last))
           ELSE /\ stats'.failed_requests = stats.failed_requests + 1
                /\ stats'.successful_categorizations = stats.successful_categorizations
                /\ stats'.average_response_time = stats.average_response_time]_vars

\* C11, reached: a failed call that follows a successful one.
C11_FailureAfterSuccess ==
    /\ variant = "backend"
    /\ pc = "done"
    /\ classifierCalls = 1
    /\ ~YieldedValidLabel(outbound, answer)
    /\ stats.successful_categorizations >= 1
    /\ stats.failed_requests >= 1
    /\ stats.average_response_time # RatInt(0)

\* C12: average_response_time is the arithmetic mean of the response times
\* of the successful calls so far, and each successful call moves it by
\* (elapsed - avg) / successCount, successCount counting that call.
C12_AverageIsMean ==
    /\ [](stats.average_response_time =
            IF stats.successful_categorizations = 0 THEN RatInt(0)
            ELSE Rat(times.sum, stats.successful_categorizations))
    /\ [][stats'.successful_categorizations = stats.successful_categorizations + 1 =>
            stats'.average_response_time =
                RatAdd(stats.average_response_time,
                       RatDivInt(RatSub(RatInt(times'.last), stats.average_response_time),
                                 stats'.successful_categorizations))]_vars

\* C12, reached: after a failure and two successes of different length the
\* average is a fraction.
C12_FractionalMean ==
    /\ stats.successful_categorizations = 2
    /\ stats.failed_requests >= 1
    /\ stats.average_response_time = Rat(3, 2)

\* C16: between calls total_requests = successful_categorizations +
\* failed_requests, and no counter ever decreases.
C16_CountersBalanced ==
    /\ [](pc = "idle" =>
            stats.total_requests = stats.successful_categorizations + stats.failed_requests)
    /\ [][/\ stats'.total_requests >= stats.total_requests
          /\ stats'.successful_categorizations >= stats.successful_categorizations
          /\ stats'.failed_requests >= stats.failed_requests]_vars

\* C16, reached: the service is idle after calls of both outcomes.
C16_IdleAfterBoth ==
    /\ variant = "backend"
    /\ pc = "idle"
    /\ stats.successful_categorizations >= 1
    /\ stats.failed_requests >= 1
    /\ stats.total_requests >= 2

(***************************************************************************)
(* Properties of the provider calls and of the lazy initialisation.        *)
(***************************************************************************)
\* C14: one categorize_email call reaches at most one provider, whatever
\* that provider answers and whichever others are configured: the backend
\* takes the preferred provider if its client exists, else OpenAI, else
\* Gemini, and without any provider it makes no call and fails.
C14_AtMostOneProviderCall ==
    (pc = "done" /\ classifierCalls = 1 /\ variant \in {"api", "backend"}) =>
        /\ Len(outbound) <= 1
        /\ variant = "backend" =>
              /\ outbound =
                    IF default_provider = "openai" /\ openai_client THEN <<"openai">>
                    ELSE IF default_provider = "gemini" /\ gemini_model THEN <<"gemini">>
                    ELSE IF openai_client THEN <<"openai">>
                    ELSE IF gemini_model THEN <<"gemini">>
                    ELSE <<>>
              /\ outbound = <<>> => ret.value = Personal /\ answer = NoAnswer

\* C14, reached: the preferred provider failed while the other one was
\* configured, and only the preferred one was called.
C14_NoSecondProviderTried ==
    /\ pc = "done"
    /\ variant = "backend"
    /\ openai_client
    /\ gemini_model
    /\ default_provider = "gemini"
    /\ answer.kind \in {"error", "timeout"}
    /\ outbound = <<"gemini">>
    /\ ret.value = Personal

\* C17: _initialized implies a client; a failed initialisation leaves the
\* flag false and the client None; once the flag is set, later calls leave
\* the flag set and the client the same object.
C17_InitializedHasClient ==
    /\ [](_initialized => client # NoClient)
    /\ [](~_initialized => client = NoClient)
    /\ [][(pc = "pending" /\ pc' = "done" /\ classifierCalls' = 1 /\ ret'.raised)
            => (~_initialized' /\ client' = NoClient)]_vars
    /\ [][_initialized => (_initialized' /\ client' = client)]_vars

\* C17, reached: a later request arrives at the initialised service.
C17_InitializedBeforeLaterCall ==
    /\ variant = "api"
    /\ pc = "pending"
    /\ _initialized
    /\ client # NoClient

(***************************************************************************)
(* Properties of the calls of concurrent worker threads.                   *)
(***************************************************************************)
\* C13: every provider call in flight carries the configured timeout, so a
\* provider that never answers is cut off, and a call that timed out
\* returns the default label.
C13_EveryCallHasTimeout ==
    \A t \in Threads :
        /\ th[t].pc = "calling" => th[t].deadline = CATEGORIZATION_TIMEOUT
        /\ (th[t].pc = "return" /\ th[t].timedOut) => th[t].ret = Ok(Personal)

\* The categorize_email calls the first k threads have completed.
RECURSIVE CompletedCalls(_)
CompletedCalls(k) == IF k = 0 THEN 0 ELSE th[k].calls + CompletedCalls(k - 1)

\* C15: once the calls of all threads have completed, total_requests and
\* successful_categorizations + failed_requests both equal the number of
\* calls made, however the calls were interleaved.
C15_NoLostIncrement ==
    (variant = "backend" /\ \A t \in Threads : th[t].pc = "idle") =>
        /\ stats.total_requests = CompletedCalls(MaxThreads)
        /\ stats.successful_categorizations + stats.failed_requests = CompletedCalls(MaxThreads)

====
